---- MODULE Spec2Model ----
(***************************************************************************)
(* Model of the GStreamer "cepstrum" element (src/src/gstcepstrum.c,       *)
(* struct _GstCepstrum of gstcepstrum.h).                                  *)
(*                                                                         *)
(* The element instance is one record, cepstrum, with the fields of the  *)
(* C struct under their own names; every C function that changes it is an  *)
(* operator of the same name from struct to struct.  gst_cepstrum_         *)
(* transform_ip is cut at its lock and at its loop into TipEnter, TipLock, *)
(* TipIter and TipExit: Spec runs a whole call as one step (handlers are   *)
(* atomic), SpecConc runs the pieces as separate steps so that property    *)
(* setters interleave with a call in progress.                             *)
(*                                                                         *)
(* Magnitudes are scaled so that the state space is finite and small:      *)
(*   - time is counted in ticks, GST_SECOND ticks to the second (the       *)
(*     source has 10^9); DEFAULT_INTERVAL stays GST_SECOND / 10;           *)
(*   - a guint holds 0 .. G_MAXUINT (the source has 2^32 - 1), and guint   *)
(*     arithmetic is taken modulo G_MAXUINT + 1; guint64 fields are        *)
(*     unbounded integers (no input of the model makes them wrap);         *)
(*   - sizes, rates and coefficient counts are small numbers with the      *)
(*     same order relations as the defaults of the source.                 *)
(* Samples and spectra are symbolic: a ring-buffer cell holds the index    *)
(* of the input frame last written to it (0: never written), a magnitude   *)
(* bin holds how many power spectra were added to it since allocation      *)
(* (0: still all zero), a coefficient cell holds 0 (zero), 1 (a filter     *)
(* log-energy) or 2 (a DCT output).                                        *)
(*                                                                         *)
(* Undefined behaviour (the NULL reads and writes of a transform, the      *)
(* modulo by a zero frame length) is resolved per build by build_traps:  *)
(* either the access traps and the process dies (fault "crashed"), or it   *)
(* does not trap, the stray access is lost, x % 0 yields x, and execution  *)
(* goes on.  A pass of the loop that neither consumes a frame nor          *)
(* completes an interval repeats forever (fault "hung"); a failed          *)
(* g_assert ends the process (fault "aborted").                            *)
(***************************************************************************)
EXTENDS Integers, Sequences, FiniteSets, TLC

VARIABLES
    cepstrum,      \* the element instance (struct _GstCepstrum + its bus)
    ref,           \* a second instance, fed the same frames one per chunk
    l,             \* locals of the gst_cepstrum_transform_ip call in progress
    pc,            \* position of the streaming thread in transform_ip
    lock,          \* owner of cepstrum->lock
    build_traps,   \* whether invalid accesses trap in this build
    fed,           \* frames handed to the element so far (upstream position)
    nenv           \* format changes, property changes, discontinuous
                   \* chunks, empty chunks and chunks ending in a partial
                   \* frame so far

vars == <<cepstrum, ref, l, pc, lock, build_traps, fed, nenv>>

----------------------------------------------------------------------------
(* Scale of the model *)

GST_SECOND == 10
G_MAXUINT == 31
MaxFed == 5
MaxChunk == 3
MaxEnv == 2
(* the filterbank builder on its own: vector length and filter count *)
MaxBin == 3
MaxFilts == 2
(* the sample readers on their own: frames in a block *)
MaxBlock == 2
(* the projection on its own: coefficient count *)
MaxProjCoeffs == 2
BytesPerSample == 2

UIntRange == G_MAXUINT + 1
ToUInt(x) == x % UIntRange
(* guint64 is twice as wide as guint *)
UInt64Range == UIntRange * UIntRange
ToUInt64(x) == x % UInt64Range
(* a guint taken as a gint: the upper half of the range is negative *)
ToInt(x) == IF x > G_MAXUINT \div 2 THEN x - UIntRange ELSE x
GST_CLOCK_TIME_NONE == 0 - 1

(* properties: src/src/gstcepstrum.c:81-90 *)
DEFAULT_POST_MESSAGES == TRUE
DEFAULT_MULTI_CHANNEL == FALSE
DEFAULT_INTERVAL == GST_SECOND \div 10
DEFAULT_NUM_COEFFS == 2
DEFAULT_SAMPLE_RATE == 10
DEFAULT_FFT_SIZE == 2
DEFAULT_WINDOW_SIZE == 2
DEFAULT_HOP_SIZE == 1
DEFAULT_USE_PREEMPHASIS == TRUE
DEFAULT_PREEMPHASIS_COEFF == 1

(* the values the model hands to the setters, inside the ranges that       *)
(* gst_cepstrum_class_init installs                                        *)
Intervals == {DEFAULT_INTERVAL, 3, 2 * UIntRange}
NumCoeffs == {1, DEFAULT_NUM_COEFFS}
SampleRates == {0, 5, DEFAULT_SAMPLE_RATE}
FftSizes == {0, 1, DEFAULT_FFT_SIZE, 3}
WinSizes == {0, DEFAULT_WINDOW_SIZE, 3}
HopSizes == {0, DEFAULT_HOP_SIZE}
PreemphasisCoeffs == {0, DEFAULT_PREEMPHASIS_COEFF}

(* the audio formats a stream can negotiate: rate and channel count *)
CapsRates == {5, 25, 30}
CapsChannels == {1, 2}
(* segments upstream can announce: the initial one and a shifted one *)
Segments ==
    {[start |-> 0, time |-> 0, base |-> 0],
     [start |-> 1, time |-> 3, base |-> 2]}

Min(a, b) == IF a < b THEN a ELSE b

(* x % n as the build computes it: a build that does not trap on a zero   *)
(* divisor leaves x                                                       *)
Mod(x, n) == IF n = 0 THEN x ELSE x % n

(* gst_util_uint64_scale: val * num / denom, rounded down, no overflow *)
gst_util_uint64_scale(val, num, denom) == (val * num) \div denom

Zeros(n) == [i \in 1 .. n |-> 0]

----------------------------------------------------------------------------
(* Construction *)

NULL_FILTER_BANK ==
    [state |-> "null", nfilts |-> 0, written |-> {}, nfft |-> 0,
     sample_rate |-> 0, bin_nan |-> FALSE, bin |-> <<>>, fbank |-> <<>>,
     h_div0 |-> FALSE]

(* g_object_new zeroes the instance, gst_cepstrum_init sets the defaults *)
gst_cepstrum_init ==
    [ post_messages |-> DEFAULT_POST_MESSAGES,
      multi_channel |-> DEFAULT_MULTI_CHANNEL,
      interval |-> DEFAULT_INTERVAL,
      num_coeffs |-> DEFAULT_NUM_COEFFS,
      num_filters |-> 0,
      sample_rate |-> DEFAULT_SAMPLE_RATE,
      fft_size |-> DEFAULT_FFT_SIZE,
      win_size |-> DEFAULT_WINDOW_SIZE,
      hop_size |-> DEFAULT_HOP_SIZE,
      use_preemphasis |-> DEFAULT_USE_PREEMPHASIS,
      preemphasis_coeff |-> DEFAULT_PREEMPHASIS_COEFF,
      frames_per_interval |-> 0,
      frames_todo |-> 0,
      num_frames |-> 0,
      num_fft |-> 0,
      message_ts |-> 0,
      channel_data |-> <<>>,          \* <<>> is NULL
      num_channels |-> 0,
      input_pos |-> 0,
      error_per_interval |-> 0,
      accumulated_error |-> 0,
      filter_bank |-> NULL_FILTER_BANK,
      input_data |-> "NULL",
      \* GstAudioFilter info of the parent (the negotiated format)
      rate |-> 0,
      channels |-> 0,
      bps |-> 0,
      bpf |-> 0,
      \* GstBaseTransform.segment of the parent (gst_segment_init)
      segment |-> [start |-> 0, time |-> 0, base |-> 0],
      \* the element's bus and the outcome of its process
      bus |-> <<>>,
      fault |-> "none",
      \* history, not program state
      h_consumed |-> 0,               \* frames consumed since construction
      h_ffts |-> <<>>,                \* every transform: frame index, cursor
      h_reports |-> <<>>,             \* every completed interval
      h_residual |-> 0,               \* size when the last call returned
      h_calls |-> 0,                  \* transform_ip calls that returned
      h_build |-> [n |-> 0, consumed |-> 0, bus |-> 0, reports |-> 0,
                   clean |-> FALSE, post_on |-> FALSE],
      \* what the last gst_cepstrum_free_channel_data released
      h_free |-> [done |-> FALSE, channels |-> 0, allocated |-> 0,
                  fbank |-> {}, slots |-> 0, vectors |-> {}]
    ]

----------------------------------------------------------------------------
(* Allocation and reset *)

RECURSIVE Pow(_, _)
Pow(b, e) == IF e = 0 THEN 1 ELSE b * Pow(b, e - 1)

(* hz_to_mel and mel_to_hz: mel = 2595 * log10 (1 + hz / 700) and its     *)
(* inverse.  Frequencies are scaled like the sample rates, so that the    *)
(* break frequency (700 Hz in the source) is half a unit and 1 + hz/700   *)
(* becomes 1 + MEL_BREAK_INV * hz.  Reals are not floats: the edges are   *)
(* those of exact arithmetic.                                             *)
MEL_BREAK_INV == 2

(* lines 831-842: bin[i] = floor ((nfft + 1) * hz_i / sample_rate) for    *)
(* i = 0 .. nfilts + 1, where hz_i is the i-th of nfilts + 2 points       *)
(* equally spaced in mel between 0 and sample_rate / 2, that is           *)
(*   1 + MEL_BREAK_INV * hz_i = (1 + MEL_BREAK_INV * sample_rate / 2)     *)
(*                                ^ (i / (nfilts + 1)).                   *)
(* With N = nfft + 1, R = 1 + sample_rate and n = nfilts + 1, bin[i] is   *)
(* the largest b with (2 * sample_rate * b + N) ^ n <= N ^ n * R ^ i.     *)
(* The result is indexed from 1: MelBins(..)[i + 1] is bin[i].            *)
MelBins(nfilts, sample_rate, nfft) ==
    LET N == nfft + 1
        n == nfilts + 1
        below(b, i) == Pow(2 * sample_rate * b + N, n)
                          <= Pow(N, n) * Pow(1 + sample_rate, i)
    IN [i1 \in 1 .. nfilts + 2 |->
           LET i == i1 - 1
           IN IF i = 0 THEN 0
              ELSE IF i = n THEN N \div 2
              ELSE CHOOSE b \in 0 .. N \div 2 :
                      /\ below(b, i)
                      /\ b < N \div 2 => ~below(b + 1, i)]

(* lines 844-854: filter i (i = 1 .. nfilts) is a zeroed vector of nfft   *)
(* weights; the rising loop writes (k - bin[i-1]) / (bin[i] - bin[i-1])   *)
(* at bin[i-1] <= k < bin[i], then the falling loop writes                *)
(* (bin[i+1] - k) / (bin[i+1] - bin[i]) at bin[i] <= k < bin[i+1].  A     *)
(* weight is the pair <<numerator, denominator>>; bin is indexed from 1.  *)
TriangularFilter(bin, i, nfft) ==
    LET lo == bin[i] mi == bin[i + 1] hi == bin[i + 2]
    IN [k1 \in 1 .. nfft |->
           LET k == k1 - 1
           IN IF mi <= k /\ k < hi THEN <<hi - k, hi - mi>>
              ELSE IF lo <= k /\ k < mi THEN <<k - lo, mi - lo>>
              ELSE <<0, 1>>]

(* the slopes are computed once, before the loops *)
TriangularFilterDivZero_Hoisted(bin, i, nfft) ==
    LET lo == bin[i] mi == bin[i + 1] hi == bin[i + 2]
    IN mi - lo = 0 \/ hi - mi = 0

(* whether one of the divisions the two loops evaluate has denominator 0 *)
TriangularFilterDivZero(bin, i, nfft) ==
    LET lo == bin[i] mi == bin[i + 1] hi == bin[i + 2]
    IN \/ \E k \in lo .. mi - 1 : mi - lo = 0
       \/ \E k \in mi .. hi - 1 : hi - mi = 0

(* lines 844-854 for all filters *)
TriangularFilters(fb) ==
    [fb EXCEPT
        !.state = "alloc",
        !.written = 1 .. fb.nfilts,
        !.fbank = [i \in 1 .. fb.nfilts |->
                      TriangularFilter(fb.bin, i, fb.nfft)],
        !.h_div0 = \E i \in 1 .. fb.nfilts :
                      TriangularFilterDivZero(fb.bin, i, fb.nfft)]

(* alloc_mel_filterbank (gfloat **fbank, gint nfilts, gint sample_rate,   *)
(* gint nfft).  It fills the slots 1 .. nfilts (C indices) of the         *)
(* nfilts-slot array.  A negative nfft makes g_malloc0 (nfft * sizeof     *)
(* (gfloat)) a request the allocator cannot serve, and g_malloc0 aborts;  *)
(* sample_rate 0 makes every edge 0.0 / 0 = NaN, and no loop over NaN     *)
(* edges runs.                                                            *)
alloc_mel_filterbank(nfilts, sample_rate, nfft) ==
    LET fb == [NULL_FILTER_BANK EXCEPT
                  !.nfilts = nfilts, !.nfft = nfft,
                  !.sample_rate = sample_rate]
    IN IF ToInt(nfft) < 0
       THEN IF nfilts > 0
            THEN [fb EXCEPT !.state = "alloc_failed"]
            ELSE [fb EXCEPT !.state = "alloc",
                            !.bin_nan = sample_rate = 0,
                            !.bin = IF sample_rate = 0 THEN <<>>
                                    ELSE <<0, (ToInt(nfft) + 1) \div 2>>]
       ELSE IF sample_rate = 0
       THEN [fb EXCEPT !.state = "alloc", !.bin_nan = TRUE,
                       !.written = 1 .. nfilts,
                       !.fbank = [i \in 1 .. nfilts |->
                                     [k \in 1 .. nfft |-> <<0, 1>>]]]
       ELSE TriangularFilters(
                [fb EXCEPT !.bin = MelBins(nfilts, sample_rate, nfft)])

NewChannel(nfft, fft_size, nfilts) ==
    [input |-> Zeros(nfft), input_tmp |-> Zeros(nfft),
     spect_magnitude |-> Zeros(fft_size), mfcc |-> Zeros(nfilts),
     h_divs |-> <<>>]

gst_cepstrum_alloc_channel_data(c) ==
    LET fft_size == c.fft_size
        nfilts == c.num_filters
        nfft == ToUInt(2 * fft_size - 2)
        num_channels == IF c.multi_channel THEN c.channels ELSE 1
    IN [c EXCEPT
          !.num_channels = num_channels,
          !.channel_data =
              [i \in 1 .. num_channels |-> NewChannel(nfft, fft_size, nfilts)],
          !.filter_bank = alloc_mel_filterbank(nfilts, c.sample_rate, nfft),
          !.fault = IF ToInt(nfft) < 0 /\ nfilts > 0 THEN "aborted"
                                                     ELSE c.fault]

(* free_mel_filterbank (gfloat **fbank, gint nfilts), lines 859-865: the   *)
(* slots (C indices) whose pointer is read and passed to g_free           *)
free_mel_filterbank(nfilts) == 0 .. nfilts - 1

(* lines 277-309.  The channel loop runs to num_channels as the build set *)
(* it; the filterbank is freed with the num_filters of this moment.  The  *)
(* history keeps the channels and slots released beside the channels,     *)
(* slots and vectors the build had allocated.                             *)
gst_cepstrum_free_channel_data(c) ==
    IF c.channel_data # <<>>
    THEN [c EXCEPT !.channel_data = <<>>,
                   !.filter_bank = [c.filter_bank EXCEPT !.state = "freed"],
                   !.h_free = [done |-> TRUE,
                               channels |-> c.num_channels,
                               allocated |-> Len(c.channel_data),
                               fbank |-> free_mel_filterbank(c.num_filters),
                               slots |-> c.filter_bank.nfilts,
                               vectors |-> c.filter_bank.written]]
    ELSE c

(* a discontinuity that also clears the rings and rewinds the cursor *)
gst_cepstrum_flush_clear(c) ==
    [c EXCEPT
        !.num_frames = 0, !.num_fft = 0, !.accumulated_error = 0,
        !.input_pos = 0,
        !.channel_data =
            [ch \in 1 .. Len(c.channel_data) |->
                [c.channel_data[ch] EXCEPT
                    !.input = Zeros(Len(c.channel_data[ch].input))]]]

gst_cepstrum_flush(c) ==
    [c EXCEPT !.num_frames = 0, !.num_fft = 0, !.accumulated_error = 0]

gst_cepstrum_reset_state(c) ==
    gst_cepstrum_flush(gst_cepstrum_free_channel_data(c))

----------------------------------------------------------------------------
(* Properties and format *)

LockedProps ==
    {"PROP_INTERVAL", "PROP_NUM_CEPSTRAL_COEFFS", "PROP_FFT_SIZE",
     "PROP_WINDOW_SIZE", "PROP_HOP_SIZE", "PROP_MULTI_CHANNEL"}

UnlockedProps ==
    {"PROP_POST_MESSAGES", "PROP_SAMPLE_RATE", "PROP_USE_PREEMPHASIS",
     "PROP_PREEMPHASIS_COEFF"}

PropValues(prop_id) ==
    CASE prop_id = "PROP_POST_MESSAGES" -> BOOLEAN
      [] prop_id = "PROP_INTERVAL" -> Intervals
      [] prop_id = "PROP_NUM_CEPSTRAL_COEFFS" -> NumCoeffs
      [] prop_id = "PROP_SAMPLE_RATE" -> SampleRates
      [] prop_id = "PROP_FFT_SIZE" -> FftSizes
      [] prop_id = "PROP_WINDOW_SIZE" -> WinSizes
      [] prop_id = "PROP_HOP_SIZE" -> HopSizes
      [] prop_id = "PROP_USE_PREEMPHASIS" -> BOOLEAN
      [] prop_id = "PROP_PREEMPHASIS_COEFF" -> PreemphasisCoeffs
      [] prop_id = "PROP_MULTI_CHANNEL" -> BOOLEAN

(* the field a property is stored in *)
PropField(c, prop_id) ==
    CASE prop_id = "PROP_POST_MESSAGES" -> c.post_messages
      [] prop_id = "PROP_INTERVAL" -> c.interval
      [] prop_id = "PROP_NUM_CEPSTRAL_COEFFS" -> c.num_coeffs
      [] prop_id = "PROP_SAMPLE_RATE" -> c.sample_rate
      [] prop_id = "PROP_FFT_SIZE" -> c.fft_size
      [] prop_id = "PROP_WINDOW_SIZE" -> c.win_size
      [] prop_id = "PROP_HOP_SIZE" -> c.hop_size
      [] prop_id = "PROP_USE_PREEMPHASIS" -> c.use_preemphasis
      [] prop_id = "PROP_PREEMPHASIS_COEFF" -> c.preemphasis_coeff
      [] prop_id = "PROP_MULTI_CHANNEL" -> c.multi_channel

gst_cepstrum_set_property(c, prop_id, value) ==
    CASE prop_id = "PROP_POST_MESSAGES" ->
           [c EXCEPT !.post_messages = value,
                     !.h_build.post_on = c.h_build.post_on /\ value]
      [] prop_id = "PROP_INTERVAL" ->
           IF c.interval # value
           THEN gst_cepstrum_reset_state([c EXCEPT !.interval = value])
           ELSE c
      [] prop_id = "PROP_NUM_CEPSTRAL_COEFFS" ->
           IF c.num_coeffs # value
           THEN gst_cepstrum_reset_state(
                    [c EXCEPT !.num_coeffs = value,
                              !.num_filters = 2 * value])
           ELSE c
      [] prop_id = "PROP_SAMPLE_RATE" ->
           [c EXCEPT !.sample_rate = value]
      [] prop_id = "PROP_FFT_SIZE" ->
           IF c.fft_size # value
           THEN gst_cepstrum_reset_state([c EXCEPT !.fft_size = value])
           ELSE c
      [] prop_id = "PROP_WINDOW_SIZE" ->
           IF c.win_size # value
           THEN gst_cepstrum_reset_state([c EXCEPT !.win_size = value])
           ELSE c
      [] prop_id = "PROP_HOP_SIZE" ->
           IF c.hop_size # value
           THEN gst_cepstrum_reset_state([c EXCEPT !.hop_size = value])
           ELSE c
      [] prop_id = "PROP_USE_PREEMPHASIS" ->
           [c EXCEPT !.use_preemphasis = value]
      [] prop_id = "PROP_PREEMPHASIS_COEFF" ->
           [c EXCEPT !.preemphasis_coeff = value]
      [] prop_id = "PROP_MULTI_CHANNEL" ->
           IF c.multi_channel # value
           THEN gst_cepstrum_reset_state([c EXCEPT !.multi_channel = value])
           ELSE c

(* gst_cepstrum_setup: the parent has stored the negotiated info; the      *)
(* reader is chosen by the channel mode of this moment, then reset         *)
gst_cepstrum_setup(c, rate, channels) ==
    gst_cepstrum_reset_state(
        [c EXCEPT !.rate = rate, !.channels = channels,
                  !.bps = BytesPerSample,
                  !.bpf = BytesPerSample * channels,
                  !.input_data = IF c.multi_channel THEN "per_channel"
                                                    ELSE "mixed"])

----------------------------------------------------------------------------
(* Transform and projection of one channel *)

(* the reader selected by gst_cepstrum_setup : it writes len frames     *)
(* at ring positions op, op+1, ... modulo nfft; the cell keeps the       *)
(* index of the input frame written, first being the first one.  A       *)
(* position outside the allocated ring is a stray write.                   *)
input_data(out, len, op, nfft, first) ==
    [p \in 1 .. Len(out) |->
        LET js == {j \in 0 .. len - 1 : Mod(op + j, nfft) = p - 1}
        IN IF js = {} THEN out[p]
           ELSE first + (CHOOSE j \in js : \A k \in js : k <= j)]

(* gst_cepstrum_fft: one more power spectrum is added to every bin *)
gst_cepstrum_fft(c, cd) ==
    [cd EXCEPT !.spect_magnitude =
        [i \in 1 .. Len(cd.spect_magnitude) |->
            IF i - 1 < c.fft_size THEN cd.spect_magnitude[i] + 1
                                  ELSE cd.spect_magnitude[i]]]

(* compute_mel_filterbank: out[i] for i < nfilts becomes a log-energy *)
compute_mel_filterbank(mfcc, nfilts) ==
    [i \in 1 .. Len(mfcc) |-> IF i - 1 < nfilts THEN 1 ELSE mfcc[i]]

(* compute_dct: out[k] for k < size becomes a DCT output *)
compute_dct(mfcc, size) ==
    [k \in 1 .. Len(mfcc) |-> IF k - 1 < size THEN 2 ELSE mfcc[k]]

(* the accesses of gst_cepstrum_run_mfcc that go through a NULL pointer:   *)
(* the frame copy into a zero-length input_tmp, the read of filterbank     *)
(* slot 0 (alloc_mel_filterbank fills 1 .. nfilts), the DCT write into a   *)
(* zero-length mfcc                                                        *)
run_mfcc_null_access(c, cd) ==
    LET nfft == ToUInt(2 * c.fft_size - 2)
    IN \/ c.win_size > 0 /\ Len(cd.input_tmp) = 0
       \/ c.num_filters > 0 /\ nfft \div 2 > 0
            /\ 0 \notin c.filter_bank.written
       \/ c.num_coeffs > 0 /\ Len(cd.mfcc) = 0

gst_cepstrum_run_mfcc(c, cd, input_pos) ==
    LET frame_size == c.win_size
        copied ==
            [p \in 1 .. Len(cd.input_tmp) |->
                IF p - 1 < frame_size
                THEN LET idx == (input_pos + p - 1) % frame_size
                     IN IF idx < Len(cd.input) THEN cd.input[idx + 1]
                                               ELSE 0 - 1
                ELSE cd.input_tmp[p]]
        cd1 == gst_cepstrum_fft(c, [cd EXCEPT !.input_tmp = copied])
    IN [cd1 EXCEPT !.mfcc =
            compute_dct(compute_mel_filterbank(cd1.mfcc, c.num_filters),
                        c.num_coeffs)]

(* gst_cepstrum_prepare_message_data: the accumulator is divided by the    *)
(* number of transforms; the divisor is recorded                           *)
gst_cepstrum_prepare_message_data(c, cd) ==
    [cd EXCEPT !.h_divs = Append(cd.h_divs, c.num_fft)]

gst_cepstrum_reset_message_data(c, cd) ==
    [cd EXCEPT !.mfcc =
        [k \in 1 .. Len(cd.mfcc) |->
            IF k - 1 < c.num_coeffs THEN 0 ELSE cd.mfcc[k]]]

(* the coefficient list of one channel as gst_cepstrum_message_add_list    *)
(* reads it: num_coeffs values from mfcc (a read past its end: -1)         *)
CoeffList(c, cd) ==
    [k \in 1 .. c.num_coeffs |->
        IF k <= Len(cd.mfcc) THEN cd.mfcc[k] ELSE 0 - 1]

(* gst_segment_to_stream_time and gst_segment_to_running_time for a     *)
(* forward segment of rate 1 without stop: a position before start is    *)
(* outside the segment and converts to GST_CLOCK_TIME_NONE                *)
gst_segment_to_stream_time(segment, position) ==
    IF position = GST_CLOCK_TIME_NONE \/ position < segment.start
    THEN GST_CLOCK_TIME_NONE
    ELSE position - segment.start + segment.time

gst_segment_to_running_time(segment, position) ==
    IF position = GST_CLOCK_TIME_NONE \/ position < segment.start
    THEN GST_CLOCK_TIME_NONE
    ELSE position - segment.start + segment.base

(* endtime is taken from the timestamp instead of the stream time *)
gst_cepstrum_message_new_ts(c, timestamp, duration) ==
    [ name |-> "cepstrum",
      endtime |-> timestamp + duration,
      timestamp |-> timestamp,
      stream_time |-> gst_segment_to_stream_time(c.segment, timestamp),
      running_time |-> gst_segment_to_running_time(c.segment, timestamp),
      duration |-> duration,
      field |-> "magnitude",
      container |-> IF c.multi_channel THEN "GST_TYPE_ARRAY"
                                       ELSE "GST_TYPE_LIST",
      magnitude |->
          IF ~c.multi_channel
          THEN CoeffList(c, c.channel_data[1])
          ELSE [ch \in 1 .. Min(c.channels, Len(c.channel_data)) |->
                   CoeffList(c, c.channel_data[ch])],
      h_num_fft |-> c.num_fft,
      h_num_frames |-> c.num_frames ]

(* the message structure: the five time fields, then the container named *)
(* "magnitude": a GST_TYPE_LIST of num_coeffs floats, or a GST_TYPE_ARRAY *)
(* holding one array of num_coeffs floats per channel of the caps         *)
gst_cepstrum_message_new(c, timestamp, duration) ==
    LET stream_time == gst_segment_to_stream_time(c.segment, timestamp)
    IN
    [ name |-> "cepstrum",
      endtime |-> stream_time + duration,
      timestamp |-> timestamp,
      stream_time |-> stream_time,
      running_time |-> gst_segment_to_running_time(c.segment, timestamp),
      duration |-> duration,
      field |-> "magnitude",
      container |-> IF c.multi_channel THEN "GST_TYPE_ARRAY"
                                       ELSE "GST_TYPE_LIST",
      magnitude |->
          IF ~c.multi_channel
          THEN CoeffList(c, c.channel_data[1])
          ELSE [ch \in 1 .. Min(c.channels, Len(c.channel_data)) |->
                   CoeffList(c, c.channel_data[ch])],
      h_num_fft |-> c.num_fft,
      h_num_frames |-> c.num_frames ]

----------------------------------------------------------------------------
(* gst_cepstrum_transform_ip *)

IdleLocals ==
    [ rate |-> 0, channels |-> 0, bps |-> 0, bpf |-> 0,
      output_channels |-> 0, nfft |-> 0, input_pos |-> 0,
      size |-> 0, data |-> 0, discont |-> FALSE, pts |-> 0, frames |-> 0,
      tail |-> 0,
      h_pass |-> [done |-> FALSE, num_frames |-> 0, frames_todo |-> 0,
                  num_fft |-> 0, ran |-> FALSE, block_size |-> 0,
                  avail |-> 0, stray |-> FALSE],
      h_entry |-> [allocated |-> FALSE, num_frames |-> 0, input_pos |-> 0,
                   channel_data |-> <<>>, filter_bank |-> NULL_FILTER_BANK] ]

(* lines 991-1000: what the call reads before it takes the lock *)
(* a buffer of frames whole frames and tail further bytes (tail < bpf) *)
TipEnter(c, frames, tail, discont, pts) ==
    [ IdleLocals EXCEPT
        !.rate = c.rate, !.channels = c.channels, !.bps = c.bps,
        !.bpf = c.bpf,
        !.output_channels = IF c.multi_channel THEN c.channels ELSE 1,
        !.nfft = ToUInt(2 * c.fft_size - 2),
        !.frames = frames, !.tail = tail, !.discont = discont, !.pts = pts ]

(* lines 1033-1040 *)
SetupInterval(c, rate) ==
    LET fpi == gst_util_uint64_scale(c.interval, rate, GST_SECOND)
    IN [c EXCEPT
          !.frames_per_interval = IF fpi = 0 THEN 1 ELSE fpi,
          !.frames_todo = fpi,
          \* the product is a guint64 and wraps
          !.error_per_interval = ToUInt64(c.interval * rate) % GST_SECOND]

(* lines 1026-1050: the buffers are missing, build them *)
Rebuild(c, rate) ==
    LET c1 == SetupInterval(gst_cepstrum_alloc_channel_data(c), rate)
        c2 == gst_cepstrum_flush([c1 EXCEPT !.input_pos = 0])
    IN [c2 EXCEPT !.h_build =
            [n |-> c.h_build.n + 1, consumed |-> c.h_consumed,
             bus |-> Len(c.bus), reports |-> Len(c.h_reports),
             clean |-> TRUE, post_on |-> c.post_messages]]

(* lines 1011-1056: lock, map, discontinuity, rebuild, timestamp, cursor *)
TipLock(c, loc) ==
    LET c1 == IF loc.discont
              THEN [gst_cepstrum_flush(c) EXCEPT
                       !.h_build.clean =
                           c.h_build.clean /\ c.channel_data = <<>>]
              ELSE c
        c2 == IF c1.channel_data = <<>> THEN Rebuild(c1, loc.rate) ELSE c1
        c3 == IF c2.num_frames = 0
              THEN [c2 EXCEPT !.message_ts = loc.pts] ELSE c2
    IN [ c |-> c3,
         l |-> [loc EXCEPT
                  !.size = loc.frames * loc.bpf + loc.tail,
                  !.input_pos = c3.input_pos,
                  !.h_entry =
                      [allocated |-> c.channel_data # <<>>,
                       num_frames |-> c.num_frames,
                       input_pos |-> c.input_pos,
                       channel_data |-> c.channel_data,
                       filter_bank |-> c.filter_bank]] ]

(* the block is not cut at the end of the transform window *)
BlockSize_NoFftCap(c, loc) ==
    LET msg_todo == ToUInt(c.frames_todo - c.num_frames)
    IN Min(msg_todo, loc.size \div loc.bpf)

(* the block is not cut at the end of the interval *)
BlockSize_NoMsgCap(c, loc) ==
    LET fft_todo == ToUInt(loc.nfft - Mod(c.num_frames, loc.nfft))
    IN Min(loc.size \div loc.bpf, fft_todo)

(* lines 1060-1069 *)
BlockSize(c, loc) ==
    LET fft_todo == ToUInt(loc.nfft - Mod(c.num_frames, loc.nfft))
        msg_todo == ToUInt(c.frames_todo - c.num_frames)
    IN Min(Min(msg_todo, loc.size \div loc.bpf), fft_todo)

(* the length the ring buffers were allocated with, lines 255-256 *)
RingLength(c) ==
    IF c.channel_data = <<>> THEN 0 ELSE Len(c.channel_data[1].input)

(* lines 1071-1077: does the block write a ring position the build did   *)
(* not allocate, or the ring of a channel it did not allocate             *)
StrayRingWrite(c, loc, block_size) ==
    /\ block_size > 0
    /\ \/ loc.output_channels > Len(c.channel_data)
       \/ \E j \in 0 .. block_size - 1 :
              Mod(loc.input_pos + j, loc.nfft) >= RingLength(c)

(* lines 1071-1081: the block goes into every ring, the counters advance *)
Consume(c, loc, block_size) ==
    [ c |-> [c EXCEPT
               !.channel_data =
                   [ch \in 1 .. Len(c.channel_data) |->
                       IF ch <= loc.output_channels
                       THEN [c.channel_data[ch] EXCEPT !.input =
                                input_data(c.channel_data[ch].input,
                                           block_size, loc.input_pos,
                                           loc.nfft, c.h_consumed + 1)]
                       ELSE c.channel_data[ch]],
               !.num_frames = c.num_frames + block_size,
               !.h_consumed = c.h_consumed + block_size],
      l |-> [loc EXCEPT
               !.data = loc.data + block_size,
               !.size = loc.size - ToUInt(block_size * loc.bpf),
               !.input_pos =
                   ToUInt(Mod(loc.input_pos + block_size, loc.nfft))] ]

(* line 1083 *)
HaveFullInterval(c) == c.num_frames = c.frames_todo

(* lines 1091-1092 *)
DoFft(c, loc) ==
    \/ Mod(c.num_frames, loc.nfft) = 0
    \/ HaveFullInterval(c) /\ c.num_fft = 0

(* lines 1093-1097 *)
RunFfts(c, loc) ==
    [c EXCEPT
       !.channel_data =
           [ch \in 1 .. Len(c.channel_data) |->
               IF ch <= loc.output_channels
               THEN gst_cepstrum_run_mfcc(c, c.channel_data[ch],
                                          loc.input_pos)
               ELSE c.channel_data[ch]],
       !.num_fft = c.num_fft + 1,
       !.h_ffts = Append(c.h_ffts, <<c.h_consumed, loc.input_pos>>)]

(* the extra frame waits until two frames' worth of error has gathered *)
NextInterval_LateCarry(c) ==
    LET extra == c.accumulated_error >= 2 * GST_SECOND
    IN [c EXCEPT
          !.frames_todo = c.frames_per_interval + (IF extra THEN 1 ELSE 0),
          !.accumulated_error =
              (IF extra THEN c.accumulated_error - GST_SECOND
                        ELSE c.accumulated_error) + c.error_per_interval]

(* the extra frame is rolled in but the error is not reduced *)
NextInterval_NoCarry(c) ==
    LET extra == c.accumulated_error >= GST_SECOND
    IN [c EXCEPT
          !.frames_todo = c.frames_per_interval + (IF extra THEN 1 ELSE 0),
          !.accumulated_error = c.accumulated_error + c.error_per_interval]

(* lines 1107-1112 *)
NextInterval(c) ==
    LET extra == c.accumulated_error >= GST_SECOND
    IN [c EXCEPT
          !.frames_todo = c.frames_per_interval + (IF extra THEN 1 ELSE 0),
          !.accumulated_error =
              (IF extra THEN c.accumulated_error - GST_SECOND
                        ELSE c.accumulated_error) + c.error_per_interval]

(* the message is posted whatever post_messages says *)
PostMessage_Always(c, loc) ==
    [c EXCEPT !.bus =
        Append(c.bus,
               gst_cepstrum_message_new(c, c.message_ts, c.interval))]

(* lines 1114-1126 *)
PostMessage(c, loc) ==
    IF c.post_messages
    THEN LET c1 == [c EXCEPT !.channel_data =
                       [ch \in 1 .. Len(c.channel_data) |->
                           IF ch <= loc.output_channels
                           THEN gst_cepstrum_prepare_message_data(
                                    c, c.channel_data[ch])
                           ELSE c.channel_data[ch]]]
         IN [c1 EXCEPT !.bus =
                Append(c1.bus,
                       gst_cepstrum_message_new(c1, c1.message_ts,
                                                c1.interval))]
    ELSE c

(* the timestamp advanced by the configured interval *)
AdvanceTimestamp_ByInterval(c, loc) ==
    IF c.message_ts # GST_CLOCK_TIME_NONE
    THEN [c EXCEPT !.message_ts = c.message_ts + c.interval]
    ELSE c

(* lines 1128-1130 *)
AdvanceTimestamp(c, loc) ==
    IF c.message_ts # GST_CLOCK_TIME_NONE
    THEN [c EXCEPT !.message_ts =
             c.message_ts
               + gst_util_uint64_scale(c.num_frames, GST_SECOND, loc.rate)]
    ELSE c

(* lines 1132-1137 *)
ResetInterval(c, loc) ==
    [c EXCEPT
       !.channel_data =
           [ch \in 1 .. Len(c.channel_data) |->
               IF ch <= loc.output_channels
               THEN gst_cepstrum_reset_message_data(c, c.channel_data[ch])
               ELSE c.channel_data[ch]],
       !.num_frames = 0,
       !.num_fft = 0]

(* lines 1101-1138: the interval is complete *)
CompleteInterval(c, loc) ==
    LET c1 == [c EXCEPT !.h_reports =
                  Append(c.h_reports,
                         [at |-> c.h_consumed, frames |-> c.num_frames,
                          num_fft |-> c.num_fft, nfft |-> loc.nfft,
                          ring |-> RingLength(c),
                          posted |-> c.post_messages])]
    IN ResetInterval(
           AdvanceTimestamp(PostMessage(NextInterval(c1), loc), loc), loc)

(* one pass of the loop body, lines 1059-1138.  The pass dies where an    *)
(* access traps; a pass that consumes nothing and completes no interval   *)
(* repeats for ever, because nothing it reads has changed.                *)
TipIter(c, loc) ==
    IF loc.nfft = 0 /\ build_traps
    THEN [c |-> [c EXCEPT !.fault = "crashed"], l |-> loc]
    ELSE
      LET block_size == BlockSize(c, loc)
          f == Consume(c, loc, block_size)
          do_fft == DoFft(f.c, f.l)
          \* the block the pass took from the frames the buffer still
          \* had, what it saw at line 1091 and whether it transformed
          h_pass == [done |-> TRUE, num_frames |-> f.c.num_frames,
                     frames_todo |-> f.c.frames_todo,
                     num_fft |-> f.c.num_fft, ran |-> do_fft,
                     block_size |-> block_size,
                     avail |-> loc.size \div loc.bpf,
                     stray |-> StrayRingWrite(c, loc, block_size)]
          traps == /\ build_traps
                   /\ \E ch \in 1 .. Len(f.c.channel_data) :
                         /\ ch <= f.l.output_channels
                         /\ run_mfcc_null_access(f.c, f.c.channel_data[ch])
      IN IF do_fft /\ traps
         THEN [f EXCEPT !.c.fault = "crashed"]
         ELSE IF block_size = 0 /\ ~HaveFullInterval(f.c)
         THEN [f EXCEPT !.c.fault = "hung", !.l.h_pass = h_pass]
         ELSE LET c1 == IF do_fft THEN RunFfts(f.c, f.l) ELSE f.c
              IN [ c |-> IF HaveFullInterval(c1)
                         THEN CompleteInterval(c1, f.l) ELSE c1,
                   l |-> [f.l EXCEPT !.h_pass = h_pass] ]

(* line 1058 *)
LoopCondition(f) == f.c.fault = "none" /\ f.l.size >= f.l.bpf

RECURSIVE TipLoop(_)
TipLoop(f) == IF LoopCondition(f) THEN TipLoop(TipIter(f.c, f.l)) ELSE f

(* lines 1141-1148 *)
TipExit(c, loc) ==
    [c EXCEPT !.input_pos = loc.input_pos, !.h_residual = loc.size,
              !.h_calls = c.h_calls + 1,
              !.fault = IF loc.size = 0 THEN c.fault ELSE "aborted"]

gst_cepstrum_transform_ip(c, frames, tail, discont, pts) ==
    LET f == TipLoop(TipLock(c, TipEnter(c, frames, tail, discont, pts)))
    IN IF f.c.fault = "none" THEN TipExit(f.c, f.l) ELSE f.c

(* the presentation time of the frame at stream position n *)
Pts(n, rate) == gst_util_uint64_scale(n, GST_SECOND, rate)

(* the same frames, one chunk per frame; the flag goes with the first *)
RECURSIVE FeedSingly(_, _, _, _, _)
FeedSingly(c, frames, tail, discont, pos) ==
    IF frames <= 1 \/ c.fault # "none"
    THEN IF c.fault # "none" THEN c
         ELSE gst_cepstrum_transform_ip(c, frames, tail, discont,
                                        Pts(pos, c.rate))
    ELSE FeedSingly(
             gst_cepstrum_transform_ip(c, 1, 0, discont, Pts(pos, c.rate)),
             frames - 1, tail, FALSE, pos + 1)

----------------------------------------------------------------------------
(* The element and its two callers: the streaming thread (setup, chunks)   *)
(* and the application thread (property setters)                           *)

Init ==
    /\ cepstrum = gst_cepstrum_init
    /\ ref = gst_cepstrum_init
    /\ l = IdleLocals
    /\ pc = "idle"
    /\ lock = "free"
    /\ build_traps \in BOOLEAN
    /\ fed = 0
    /\ nenv = 0

Alive == cepstrum.fault = "none"

Setup ==
    /\ Alive /\ pc = "idle" /\ lock = "free"
    /\ nenv < MaxEnv
    /\ \E rate \in CapsRates, channels \in CapsChannels :
          /\ cepstrum' = gst_cepstrum_setup(cepstrum, rate, channels)
          /\ ref' = gst_cepstrum_setup(ref, rate, channels)
    /\ nenv' = nenv + 1
    /\ UNCHANGED <<l, pc, lock, build_traps, fed>>

SetProperty ==
    /\ Alive
    /\ nenv < MaxEnv
    /\ \E prop_id \in LockedProps \cup UnlockedProps :
          /\ prop_id \in LockedProps => lock = "free"
          /\ \E value \in PropValues(prop_id) :
                \* a call with the value the property has changes nothing
                /\ value # PropField(cepstrum, prop_id)
                /\ cepstrum' =
                       gst_cepstrum_set_property(cepstrum, prop_id, value)
                /\ ref' = gst_cepstrum_set_property(ref, prop_id, value)
    /\ nenv' = nenv + 1
    /\ UNCHANGED <<l, pc, lock, build_traps, fed>>

(* a whole gst_cepstrum_transform_ip call *)
Chunk ==
    /\ Alive /\ pc = "idle" /\ lock = "free"
    /\ cepstrum.input_data # "NULL"
    /\ \E frames \in 0 .. MaxChunk, tail \in 0 .. BytesPerSample - 1,
          discont \in BOOLEAN :
          /\ fed + frames <= MaxFed
          /\ (discont \/ frames = 0 \/ tail > 0) => nenv < MaxEnv
          /\ cepstrum' = gst_cepstrum_transform_ip(
                             cepstrum, frames, tail, discont,
                             Pts(fed, cepstrum.rate))
          /\ ref' = FeedSingly(ref, frames, tail, discont, fed)
          /\ fed' = fed + frames
          /\ nenv' = nenv + (IF discont \/ frames = 0 \/ tail > 0
                             THEN 1 ELSE 0)
    /\ UNCHANGED <<l, pc, lock, build_traps>>

(* a SEGMENT event from upstream: the parent class stores it; events are *)
(* serialized with the buffers of the streaming thread                   *)
SegmentEvent ==
    /\ Alive /\ pc = "idle"
    /\ nenv < MaxEnv
    /\ \E segment \in Segments :
          /\ segment # cepstrum.segment
          /\ cepstrum' = [cepstrum EXCEPT !.segment = segment]
          /\ ref' = [ref EXCEPT !.segment = segment]
    /\ nenv' = nenv + 1
    /\ UNCHANGED <<l, pc, lock, build_traps, fed>>

Next == Setup \/ SetProperty \/ SegmentEvent \/ Chunk

Spec == Init /\ [][Next]_vars

----------------------------------------------------------------------------
(* The same element with a call of gst_cepstrum_transform_ip taken step by *)
(* step: the reads before the lock, the locked prologue, each pass of the  *)
(* loop, the epilogue.  The setters that take the lock wait for it, the    *)
(* others run at any point of the call.                                    *)

CEnter ==
    /\ Alive /\ pc = "idle"
    /\ cepstrum.input_data # "NULL"
    /\ \E frames \in 0 .. MaxChunk, tail \in 0 .. BytesPerSample - 1,
          discont \in BOOLEAN :
          /\ fed + frames <= MaxFed
          /\ (discont \/ frames = 0 \/ tail > 0) => nenv < MaxEnv
          /\ l' = TipEnter(cepstrum, frames, tail, discont,
                           Pts(fed, cepstrum.rate))
          /\ fed' = fed + frames
          /\ nenv' = nenv + (IF discont \/ frames = 0 \/ tail > 0
                             THEN 1 ELSE 0)
    /\ pc' = "entered"
    /\ UNCHANGED <<cepstrum, ref, lock, build_traps>>

CLock ==
    /\ Alive /\ pc = "entered" /\ lock = "free"
    /\ LET f == TipLock(cepstrum, l)
       IN cepstrum' = f.c /\ l' = f.l
    /\ lock' = "streaming"
    /\ pc' = "loop"
    /\ UNCHANGED <<ref, build_traps, fed, nenv>>

CIter ==
    /\ Alive /\ pc = "loop"
    /\ LoopCondition([c |-> cepstrum, l |-> l])
    /\ LET f == TipIter(cepstrum, l)
       IN cepstrum' = f.c /\ l' = f.l
    /\ UNCHANGED <<ref, pc, lock, build_traps, fed, nenv>>

CExit ==
    /\ Alive /\ pc = "loop"
    /\ ~LoopCondition([c |-> cepstrum, l |-> l])
    /\ cepstrum' = TipExit(cepstrum, l)
    /\ l' = IdleLocals
    /\ lock' = "free"
    /\ pc' = "idle"
    /\ UNCHANGED <<ref, build_traps, fed, nenv>>

NextConc == Setup \/ SetProperty \/ SegmentEvent \/ CEnter \/ CLock \/ CIter \/ CExit

SpecConc == Init /\ [][NextConc]_vars

(***************************************************************************)
(* The filterbank builder on its own: lines 844-854 applied to any edge    *)
(* array bin[0 .. nfilts + 1] whose entries lie inside the weight vectors. *)
(***************************************************************************)
InitFbank ==
    /\ \E nfilts \in 1 .. MaxFilts :
         \E bin \in [1 .. nfilts + 2 -> 0 .. MaxBin] :
            cepstrum = [gst_cepstrum_init EXCEPT
                           !.filter_bank =
                               [NULL_FILTER_BANK EXCEPT
                                   !.state = "edges", !.nfilts = nfilts,
                                   !.nfft = MaxBin, !.bin = bin]]
    /\ ref = gst_cepstrum_init
    /\ l = IdleLocals
    /\ pc = "idle"
    /\ lock = "free"
    /\ build_traps \in BOOLEAN
    /\ fed = 0
    /\ nenv = 0

CreateTriangularFilters ==
    /\ cepstrum.filter_bank.state = "edges"
    /\ cepstrum' = [cepstrum EXCEPT
                       !.filter_bank = TriangularFilters(@)]
    /\ UNCHANGED <<ref, l, pc, lock, build_traps, fed, nenv>>

NextFbank == CreateTriangularFilters

SpecFbank == InitFbank /\ [][NextFbank]_vars

(***************************************************************************)
(* The allocation on its own: gst_cepstrum_alloc_channel_data applied to   *)
(* every configuration the setters can leave behind.  num_filters is 0     *)
(* until num-coeffs changes and twice num_coeffs from then on.             *)
(***************************************************************************)
InitAlloc ==
    /\ \E fft_size \in FftSizes, num_coeffs \in NumCoeffs,
          sample_rate \in SampleRates, multi_channel \in BOOLEAN,
          rate \in CapsRates, channels \in CapsChannels :
          \E num_filters \in {0, 2 * num_coeffs} :
             cepstrum = [gst_cepstrum_setup(
                             [gst_cepstrum_init EXCEPT
                                 !.multi_channel = multi_channel],
                             rate, channels)
                           EXCEPT !.fft_size = fft_size,
                                  !.num_coeffs = num_coeffs,
                                  !.num_filters = num_filters,
                                  !.sample_rate = sample_rate]
    /\ ref = gst_cepstrum_init
    /\ l = IdleLocals
    /\ pc = "idle"
    /\ lock = "free"
    /\ build_traps \in BOOLEAN
    /\ fed = 0
    /\ nenv = 0

AllocChannelData ==
    /\ cepstrum.channel_data = <<>> /\ cepstrum.filter_bank.state = "null"
    /\ cepstrum' = gst_cepstrum_alloc_channel_data(cepstrum)
    /\ UNCHANGED <<ref, l, pc, lock, build_traps, fed, nenv>>

NextAlloc == AllocChannelData

SpecAlloc == InitAlloc /\ [][NextAlloc]_vars

(***************************************************************************)
(* The downmixing readers on their own (lines 491-581): one call of the    *)
(* reader gst_cepstrum_setup selects for a format, on a block of len       *)
(* frames of channels samples each, writing the ring out of nfft cells     *)
(* from position op.  A cell holds the value written as the sum it was     *)
(* computed from, the divisor max_value of its terms and the channel count *)
(* it was divided by; float rounding is left out.                          *)
(***************************************************************************)
Formats == {"S16", "S24", "S32", "F32", "F64"}
Samples == {0 - 1, 0, 1}

RECURSIVE SeqSum(_)
SeqSum(q) == IF q = <<>> THEN 0 ELSE q[1] + SeqSum(Tail(q))

(* line 998: max_value = (1UL << ((bps << 3) - 1)) - 1, written so that  *)
(* no intermediate value exceeds it                                        *)
max_value(bps) == 2 * (Pow(2, 8 * bps - 2) - 1) + 1

(* bytes per sample of an integer format *)
FormatWidth(format) ==
    CASE format = "S16" -> 2 [] format = "S24" -> 3 [] format = "S32" -> 4

(* GST_READ_UINT24_LE and the sign extension of lines 555-556 *)
SignExtend24(u) == IF u >= Pow(2, 23) THEN u - Pow(2, 24) ELSE u
(* a 24-bit sample as the three bytes hold it *)
Raw24(s) == s % Pow(2, 24)

(* lines 491-505, 508-522: v = in[ip++]; v += in[ip++]; out = v / channels *)
input_data_mixed_float(frames, channels) ==
    [j \in 1 .. Len(frames) |->
        [sum |-> SeqSum(frames[j]), max_value |-> 1, channels |-> channels]]

(* lines 525-539, 566-581: the same over in[ip++] / max_value *)
input_data_mixed_int_max(frames, channels, bps) ==
    [j \in 1 .. Len(frames) |->
        [sum |-> SeqSum(frames[j]), max_value |-> max_value(bps),
         channels |-> channels]]

(* lines 542-563: v is set to 0.0 once, before the loop over the frames,  *)
(* and every sample of every frame is added to it                          *)
input_data_mixed_int24_max(frames, channels) ==
    [j \in 1 .. Len(frames) |->
        [sum |-> SeqSum([i \in 1 .. j |->
                    SeqSum([ch \in 1 .. channels |->
                               SignExtend24(Raw24(frames[i][ch]))])]),
         max_value |-> max_value(3), channels |-> channels]]

(* lines 667-688 without multi_channel *)
input_data_mixed(format, frames, channels) ==
    CASE format \in {"F32", "F64"} -> input_data_mixed_float(frames, channels)
      [] format \in {"S16", "S32"} ->
            input_data_mixed_int_max(frames, channels, FormatWidth(format))
      [] format = "S24" -> input_data_mixed_int24_max(frames, channels)

(* out[op] = v / channels; op = (op + 1) % nfft, for each frame in turn *)
RECURSIVE WriteRing(_, _, _, _)
WriteRing(out, vals, op, nfft) ==
    IF vals = <<>> THEN out
    ELSE WriteRing([out EXCEPT ![op + 1] = vals[1]], Tail(vals),
                   (op + 1) % nfft, nfft)

ZeroCell == [sum |-> 0, max_value |-> 1, channels |-> 1]

InitReader ==
    /\ \E format \in Formats, channels \in CapsChannels,
          len \in 0 .. MaxBlock, nfft \in 1 .. MaxBlock + 1 :
          \E op \in 0 .. nfft - 1,
             frames \in [1 .. len -> [1 .. channels -> Samples]] :
             /\ len <= nfft
             /\ l = [format |-> format, channels |-> channels,
                     frames |-> frames, op |-> op, nfft |-> nfft,
                     out |-> [p \in 1 .. nfft |-> ZeroCell],
                     done |-> FALSE]
    /\ cepstrum = gst_cepstrum_init
    /\ ref = gst_cepstrum_init
    /\ pc = "idle"
    /\ lock = "free"
    /\ build_traps \in BOOLEAN
    /\ fed = 0
    /\ nenv = 0

ReadBlock ==
    /\ ~l.done
    /\ l' = [l EXCEPT
                !.out = WriteRing(l.out,
                            input_data_mixed(l.format, l.frames, l.channels),
                            l.op, l.nfft),
                !.done = TRUE]
    /\ UNCHANGED <<cepstrum, ref, pc, lock, build_traps, fed, nenv>>

NextReader == ReadBlock

SpecReader == InitReader /\ [][NextReader]_vars

(***************************************************************************)
(* The projection on its own: compute_mel_filterbank followed by           *)
(* compute_dct as gst_cepstrum_run_mfcc calls them (lines 956-960), on a   *)
(* magnitude vector of fft_size bins, a filterbank of nfilts vectors and   *)
(* the mfcc array of nfilts floats.  fft_size is nfilts here, so that      *)
(* every magnitude read is inside the vector.  A float is kept as the      *)
(* expression that produced it: Zero, LogOf(x) for log (x + 1e-10), and    *)
(* DctOf(size, terms) for the sum of terms[n] * cos (PI * k * (n + 0.5) /  *)
(* size) over the size operands terms.                                     *)
(***************************************************************************)
Zero == [kind |-> "zero"]
LogOf(x) == [kind |-> "log", of |-> x]
DctOf(size, terms) == [kind |-> "dct", size |-> size, terms |-> terms]

(* lines 867-878: out[i] accumulates the weighted sum and is then          *)
(* assigned log (in[i] + 1e-10)                                            *)
MelFilterbankOut(in, out, fbank, nfilts, nfft) ==
    [i1 \in 1 .. Len(out) |->
        IF i1 - 1 < nfilts THEN LogOf(in[i1]) ELSE out[i1]]

(* the weighted sum the loop of lines 873-875 leaves in out[i] *)
MelWeightedSum(in, fbank, i1, nfft) ==
    SeqSum([j1 \in 1 .. nfft \div 2 |-> in[j1] * fbank[i1][j1]])

(* lines 808-817 called with in = out = mfcc: out[k] = 0.0 clears in[k],   *)
(* and the slots below k already hold outputs                              *)
RECURSIVE DctInPlace(_, _, _)
DctInPlace(buf, k, size) ==
    IF k >= size THEN buf
    ELSE LET cleared == [buf EXCEPT ![k + 1] = Zero]
         IN DctInPlace(
                [buf EXCEPT ![k + 1] =
                    DctOf(size, [n1 \in 1 .. size |-> cleared[n1]])],
                k + 1, size)

InitProject ==
    /\ \E numcoeffs \in 1 .. MaxProjCoeffs :
          LET nfilts == 2 * numcoeffs
              fft_size == nfilts
              nfft == 2 * fft_size - 2
          IN \E in \in [1 .. fft_size -> {0, 1}],
                fbank \in [1 .. nfilts -> [1 .. nfft \div 2 -> {0, 1}]] :
                l = [stage |-> "magnitude", in |-> in, fbank |-> fbank,
                     nfilts |-> nfilts, nfft |-> nfft,
                     numcoeffs |-> numcoeffs,
                     mfcc |-> [i \in 1 .. nfilts |-> Zero],
                     h_energies |-> <<>>]
    /\ cepstrum = gst_cepstrum_init
    /\ ref = gst_cepstrum_init
    /\ pc = "idle"
    /\ lock = "free"
    /\ build_traps = FALSE
    /\ fed = 0
    /\ nenv = 0

(* line 957 *)
ComputeMelFilterbank ==
    /\ l.stage = "magnitude"
    /\ LET out == MelFilterbankOut(l.in, l.mfcc, l.fbank, l.nfilts, l.nfft)
       IN l' = [l EXCEPT !.mfcc = out, !.h_energies = out,
                         !.stage = "energies"]
    /\ UNCHANGED <<cepstrum, ref, pc, lock, build_traps, fed, nenv>>

(* line 960: compute_dct (mfcc, mfcc, numcoeffs) *)
ComputeDct ==
    /\ l.stage = "energies"
    /\ l' = [l EXCEPT !.mfcc = DctInPlace(l.mfcc, 0, l.numcoeffs),
                      !.stage = "coefficients"]
    /\ UNCHANGED <<cepstrum, ref, pc, lock, build_traps, fed, nenv>>

NextProject == ComputeMelFilterbank \/ ComputeDct

SpecProject == InitProject /\ [][NextProject]_vars

(***************************************************************************)
(* One transform and projection on its own: gst_cepstrum_run_mfcc on the   *)
(* buffers gst_cepstrum_alloc_channel_data builds, for the configurations  *)
(* the setters can leave behind and every cursor of the ring.  The indices *)
(* (C indices) each array is accessed at are kept beside the buffers.      *)
(***************************************************************************)
NoAccesses ==
    [ran |-> FALSE, input_tmp |-> {}, input |-> {}, spect_magnitude |-> {},
     fbank_slots |-> {}, fbank |-> {}, mfcc |-> {}]

(* lines 944-945 (the frame copy), 871-876 (compute_mel_filterbank) and    *)
(* 811-815 (compute_dct with in = out = mfcc)                              *)
run_mfcc_accesses(c, input_pos) ==
    LET frame_size == c.win_size
        nfft == ToUInt(2 * c.fft_size - 2)
        nfilts == c.num_filters
        numcoeffs == c.num_coeffs
    IN [ran |-> TRUE,
        input_tmp |-> 0 .. frame_size - 1,
        input |-> {Mod(input_pos + i, frame_size) :
                      i \in 0 .. frame_size - 1},
        spect_magnitude |-> 0 .. nfilts - 1,
        fbank_slots |-> IF nfft \div 2 > 0 THEN 0 .. nfilts - 1 ELSE {},
        fbank |-> IF nfilts > 0 THEN 0 .. nfft \div 2 - 1 ELSE {},
        mfcc |-> 0 .. numcoeffs - 1]

InitAccess ==
    /\ \E fft_size \in FftSizes, win_size \in WinSizes,
          num_coeffs \in NumCoeffs :
          \E num_filters \in {0, 2 * num_coeffs},
             input_pos \in 0 .. ToUInt(2 * fft_size - 2) :
             /\ input_pos = 0 \/ input_pos < ToUInt(2 * fft_size - 2)
             /\ cepstrum = [gst_cepstrum_setup(gst_cepstrum_init,
                                               DEFAULT_SAMPLE_RATE, 1)
                              EXCEPT !.fft_size = fft_size,
                                     !.win_size = win_size,
                                     !.num_coeffs = num_coeffs,
                                     !.num_filters = num_filters,
                                     !.input_pos = input_pos]
    /\ ref = gst_cepstrum_init
    /\ l = NoAccesses
    /\ pc = "idle"
    /\ lock = "free"
    /\ build_traps = FALSE
    /\ fed = 0
    /\ nenv = 0

(* lines 1093-1097 for the one channel *)
RunMfcc ==
    /\ cepstrum.channel_data # <<>> /\ Alive /\ ~l.ran
    /\ l' = run_mfcc_accesses(cepstrum, cepstrum.input_pos)
    /\ UNCHANGED <<cepstrum, ref, pc, lock, build_traps, fed, nenv>>

NextAccess == AllocChannelData \/ RunMfcc

SpecAccess == InitAccess /\ [][NextAccess]_vars

----------------------------------------------------------------------------
(* Properties *)

Allocated(c) == c.channel_data # <<>>

(* frames consumed, intervals completed and messages posted since the     *)
(* buffers were last built                                                *)
FramesSinceBuild(c) == c.h_consumed - c.h_build.consumed
ReportsSinceBuild(c) == Len(c.h_reports) - c.h_build.reports
EventsSinceBuild(c) == {i \in 1 .. Len(c.bus) : i > c.h_build.bus}
FramesReportedSinceBuild(c) ==
    IF ReportsSinceBuild(c) = 0 THEN 0
    ELSE c.h_reports[Len(c.h_reports)].at - c.h_build.consumed

ZeroVec(v) == \A i \in 1 .. Len(v) : v[i] = 0

(* C1: from a fresh build, with posting on and no discontinuity or        *)
(* reconfiguration, once the frames of exactly one interval               *)
(* (frames_per_interval) have been fed, exactly one message has been      *)
(* posted, and it was built with num_fft >= 1.                            *)
C1_OneIntervalOneEvent ==
    ( /\ Alive
      /\ Allocated(cepstrum)
      /\ cepstrum.h_build.clean
      /\ cepstrum.h_build.post_on
      /\ FramesSinceBuild(cepstrum) = cepstrum.frames_per_interval )
    => /\ Cardinality(EventsSinceBuild(cepstrum)) = 1
       /\ \A i \in EventsSinceBuild(cepstrum) : cepstrum.bus[i].h_num_fft >= 1

(* what a run shows of its scheduling: the counters, the cursor, the      *)
(* buffers, every transform, every report and the coefficients posted     *)
SchedView(c) ==
    [ num_frames |-> c.num_frames, num_fft |-> c.num_fft,
      frames_todo |-> c.frames_todo,
      accumulated_error |-> c.accumulated_error,
      input_pos |-> c.input_pos,
      channel_data |-> c.channel_data,
      ffts |-> c.h_ffts, reports |-> c.h_reports,
      posted |-> [i \in 1 .. Len(c.bus) |->
                     <<c.bus[i].magnitude, c.bus[i].duration,
                       c.bus[i].h_num_fft, c.bus[i].h_num_frames>>] ]

Abs(x) == IF x < 0 THEN 0 - x ELSE x

(* C3: without discontinuity or reconfiguration, after k >= 1 reports the *)
(* frames reported differ from k * rate * interval / GST_SECOND by less   *)
(* than k frames (the average per report is within one frame of nominal), *)
(* and accumulated_error stays below GST_SECOND + error_per_interval.     *)
C3_DriftFree ==
    /\ cepstrum.accumulated_error
          < GST_SECOND + cepstrum.error_per_interval
    /\ ( /\ Allocated(cepstrum)
         /\ cepstrum.h_build.clean
         /\ ReportsSinceBuild(cepstrum) >= 1 )
       => Abs(GST_SECOND * FramesReportedSinceBuild(cepstrum)
              - ReportsSinceBuild(cepstrum)
                  * cepstrum.rate * cepstrum.interval)
            < ReportsSinceBuild(cepstrum) * GST_SECOND

C3_Witness ==
    /\ Alive /\ Allocated(cepstrum) /\ cepstrum.h_build.clean
    /\ ReportsSinceBuild(cepstrum) >= 3
    /\ cepstrum.error_per_interval > 0
    /\ \E i \in 1 .. Len(cepstrum.h_reports) :
          /\ i > cepstrum.h_build.reports
          /\ cepstrum.h_reports[i].frames > cepstrum.frames_per_interval

(* C4: in every state, 0 <= num_frames <= frames_todo. *)
C4_FramesWithinTarget ==
    /\ 0 <= cepstrum.num_frames
    /\ cepstrum.num_frames <= cepstrum.frames_todo

C4_Witness ==
    /\ nenv = MaxEnv
    /\ pc = "loop"
    /\ l.discont
    /\ l.h_entry.num_frames > 0
    /\ 0 < cepstrum.num_frames
    /\ cepstrum.num_frames < cepstrum.frames_todo

(* C5: when a call of transform_ip returns, no byte of the buffer is left *)
(* unconsumed (size = 0, the assertion of the epilogue holds), whatever   *)
(* the buffer and the state it arrives in.                                *)
C5_InputFullyConsumed ==
    cepstrum.h_residual = 0 /\ cepstrum.fault # "aborted"

(* C6: the processing of every chunk terminates: no pass of the loop      *)
(* repeats without consuming a frame or completing an interval (stated    *)
(* for the configurations whose frame length is not zero).                *)
C6_ChunkProcessingTerminates ==
    cepstrum.fft_size # 1 => cepstrum.fault # "hung"

ConfigOf(c) ==
    <<c.fft_size, c.win_size, c.sample_rate, c.num_coeffs, c.multi_channel,
      c.interval>>

(* C7: every change of transform size, window size, sample rate,          *)
(* coefficient count, channel mode or interval to a different value       *)
(* leaves the element without buffers (Unconfigured).                     *)
C7_ConfigChangeForcesUnconfigured ==
    [][ConfigOf(cepstrum') # ConfigOf(cepstrum)
          => ~Allocated(cepstrum')]_vars

AllConfigOf(c) ==
    <<c.post_messages, c.sample_rate, c.use_preemphasis,
      c.preemphasis_coeff, c.fft_size, c.win_size, c.hop_size,
      c.num_coeffs, c.interval, c.multi_channel>>

(* C8: no configuration field changes while a transform_ip call holds the *)
(* lock.                                                                  *)
C8_ConfigStableDuringCall ==
    [][lock = "streaming"
          => AllConfigOf(cepstrum') = AllConfigOf(cepstrum)]_vars

(* C9: the prologue of a discontinuous chunk that finds buffers allocated *)
(* sets num_frames, num_fft and accumulated_error to 0 before any frame   *)
(* is consumed and leaves the channel buffers, their contents, the        *)
(* filterbank and the cursor as they were.                                *)
C9_DiscontKeepsBuffers ==
    [][(pc = "entered" /\ pc' = "loop" /\ l.discont /\ Allocated(cepstrum))
          => /\ cepstrum'.num_frames = 0
             /\ cepstrum'.num_fft = 0
             /\ cepstrum'.accumulated_error = 0
             /\ cepstrum'.h_consumed = cepstrum.h_consumed
             /\ cepstrum'.channel_data = cepstrum.channel_data
             /\ cepstrum'.filter_bank = cepstrum.filter_bank
             /\ cepstrum'.input_pos = cepstrum.input_pos
             /\ l'.input_pos = cepstrum.input_pos]_vars

C9_Witness ==
    /\ pc = "loop" /\ l.discont /\ l.data = 0
    /\ l.h_entry.allocated
    /\ l.h_entry.num_frames > 0
    /\ l.h_entry.input_pos > 0
    /\ cepstrum.num_frames = 0
    /\ cepstrum.channel_data = l.h_entry.channel_data
    /\ \E p \in 1 .. Len(cepstrum.channel_data[1].input) :
          cepstrum.channel_data[1].input[p] > 0

(* C10: the pass that completes an interval leaves every channel's        *)
(* magnitude accumulator and coefficient buffer all zero and num_frames   *)
(* and num_fft at 0.                                                      *)
C10_IntervalStartsFromZero ==
    [][Len(cepstrum'.h_reports) > Len(cepstrum.h_reports)
          => /\ cepstrum'.num_frames = 0
             /\ cepstrum'.num_fft = 0
             /\ \A ch \in 1 .. Len(cepstrum'.channel_data) :
                   /\ ZeroVec(cepstrum'.channel_data[ch].spect_magnitude)
                   /\ ZeroVec(cepstrum'.channel_data[ch].mfcc)]_vars

(* a pass of the loop (not a setter running beside it) that brings        *)
(* num_frames to frames_todo and survives                                 *)
CompletesInterval ==
    /\ pc = "loop" /\ pc' = "loop"
    /\ AllConfigOf(cepstrum') = AllConfigOf(cepstrum)
    /\ cepstrum'.fault = "none"
    /\ cepstrum.num_frames + (cepstrum'.h_consumed - cepstrum.h_consumed)
          = cepstrum.frames_todo

(* C11: a pass that completes an interval posts exactly one message if    *)
(* post_messages is true at that moment and none if it is false; no other *)
(* step posts a message, and no message ever leaves the bus.              *)
C11_OneEventPerCompletion ==
    [][/\ Len(cepstrum'.bus) - Len(cepstrum.bus)
            = (IF CompletesInterval /\ cepstrum.post_messages THEN 1 ELSE 0)
       /\ SubSeq(cepstrum'.bus, 1, Len(cepstrum.bus)) = cepstrum.bus]_vars

C11_Witness ==
    /\ pc = "loop"
    /\ Len(cepstrum.bus) >= 1
    /\ \E i, j \in 1 .. Len(cepstrum.h_reports) :
          /\ i < j
          /\ cepstrum.h_reports[i].posted
          /\ ~cepstrum.h_reports[j].posted
    /\ Len(cepstrum.bus)
          = Cardinality({i \in 1 .. Len(cepstrum.h_reports) :
                            cepstrum.h_reports[i].posted})

C13_CoeffsField ==
    \A i \in 1 .. Len(cepstrum.bus) :
        /\ cepstrum.bus[i].name = "cepstrum"
        /\ cepstrum.bus[i].field = "coeffs"
        /\ cepstrum.bus[i].container = "GST_TYPE_LIST"

(* C14: no buffers are ever allocated, and no chunk is consumed, under a  *)
(* configuration whose frame length 2 * fft_size - 2 is 0 or whose        *)
(* win_size is 0.                                                         *)
C14_ZeroLengthRejected ==
    Allocated(cepstrum)
        => /\ 2 * cepstrum.fft_size - 2 # 0
           /\ cepstrum.win_size # 0

(* C15: while buffers are allocated, every channel's ring and scratch     *)
(* buffer have length 2 * fft_size - 2 (as a guint), the magnitude        *)
(* accumulator has length fft_size, and the frame length a call in        *)
(* progress uses for the cursor and the transform trigger is the          *)
(* allocated ring length.                                                 *)
C15_FrameLengthMatchesBuffers ==
    Allocated(cepstrum)
        => /\ \A ch \in 1 .. Len(cepstrum.channel_data) :
                 /\ Len(cepstrum.channel_data[ch].input)
                       = ToUInt(2 * cepstrum.fft_size - 2)
                 /\ Len(cepstrum.channel_data[ch].input_tmp)
                       = ToUInt(2 * cepstrum.fft_size - 2)
                 /\ Len(cepstrum.channel_data[ch].spect_magnitude)
                       = cepstrum.fft_size
           /\ pc = "loop"
                 => l.nfft = Len(cepstrum.channel_data[1].input)

(* C16: a built filterbank has exactly its slots 0 .. nfilts - 1 filled   *)
(* (each with a vector of the frame length), which are the slots          *)
(* compute_mel_filterbank reads.                                          *)
C16_FilterbankSlots ==
    cepstrum.filter_bank.state = "alloc"
        => cepstrum.filter_bank.written
              = 0 .. cepstrum.filter_bank.nfilts - 1

(* the edges bin[0 .. nfilts + 1] of a filterbank never decrease *)
EdgesNonDecreasing(fb) ==
    \A i \in 1 .. Len(fb.bin) - 1 : fb.bin[i] <= fb.bin[i + 1]

(* filter i has weight zero at every bin outside [bin[i-1], bin[i+1]);   *)
(* no bin lies inside a span whose edges are not numbers                  *)
ZeroOutsideSpan(fb) ==
    \A i \in 1 .. fb.nfilts : \A k1 \in 1 .. fb.nfft :
        (fb.bin_nan \/ k1 - 1 < fb.bin[i] \/ k1 - 1 >= fb.bin[i + 2])
            => fb.fbank[i][k1][1] = 0

(* left edge, centre and right edge of filter i are each <= those of     *)
(* filter i + 1; an edge that is not a number is <= nothing               *)
FilterEdgesOrdered(fb) ==
    \A i \in 1 .. fb.nfilts - 1 :
        /\ ~fb.bin_nan
        /\ \A j \in 0 .. 2 : fb.bin[i + j] <= fb.bin[i + j + 1]

(* C17: in every filterbank built, every filter's weights are zero        *)
(* outside the span between its left and its right edge, and the edges    *)
(* never decrease from one filter to the next.                            *)
C17_SpanAndOrderedEdges ==
    (Allocated(cepstrum) /\ cepstrum.filter_bank.state = "alloc")
        => /\ ZeroOutsideSpan(cepstrum.filter_bank)
           /\ FilterEdgesOrdered(cepstrum.filter_bank)

(* C18: for edges that never decrease, the builder evaluates no division  *)
(* by zero, and a ramp between two equal edges leaves every weight on its *)
(* side of the centre at zero: the bins below the centre for a rising     *)
(* ramp, the bins from the centre on for a falling ramp.                  *)
C18_DegenerateRampsTolerated ==
    LET fb == cepstrum.filter_bank
    IN (fb.state = "alloc" /\ ~fb.bin_nan /\ EdgesNonDecreasing(fb))
          => /\ ~fb.h_div0
             /\ \A i \in 1 .. fb.nfilts : \A k1 \in 1 .. fb.nfft :
                   /\ (fb.bin[i] = fb.bin[i + 1] /\ k1 - 1 < fb.bin[i + 1])
                         => fb.fbank[i][k1][1] = 0
                   /\ (fb.bin[i + 1] = fb.bin[i + 2]
                          /\ k1 - 1 >= fb.bin[i + 1])
                         => fb.fbank[i][k1][1] = 0

C18_Witness ==
    LET fb == cepstrum.filter_bank
    IN /\ fb.state = "alloc" /\ ~fb.bin_nan /\ EdgesNonDecreasing(fb)
       /\ \E i \in 1 .. fb.nfilts :
             /\ fb.bin[i] = fb.bin[i + 1]
             /\ fb.bin[i + 1] < fb.bin[i + 2]
             /\ \E k1 \in 1 .. fb.nfft : fb.fbank[i][k1][1] # 0
       /\ \E i \in 1 .. fb.nfilts :
             /\ fb.bin[i] < fb.bin[i + 1]
             /\ fb.bin[i + 1] = fb.bin[i + 2]
             /\ \E k1 \in 1 .. fb.nfft : fb.fbank[i][k1][1] # 0

(* x / d rounded to the nearest integer, halves upwards *)
RoundDiv(x, d) == (2 * x + d) \div (2 * d)

(* C19: while the buffers built for an interval and a rate are in place,  *)
(* frames_per_interval is interval * rate / GST_SECOND rounded to the      *)
(* nearest integer, at least 1, and error_per_interval is the remainder of *)
(* interval * rate by GST_SECOND.                                          *)
C19_FramesAndErrorPerInterval ==
    Allocated(cepstrum)
        => LET product == cepstrum.interval * cepstrum.rate
               nearest == RoundDiv(product, GST_SECOND)
           IN /\ cepstrum.frames_per_interval
                    = (IF nearest < 1 THEN 1 ELSE nearest)
              /\ cepstrum.error_per_interval = product % GST_SECOND

(* C20: whenever the channel buffers and the filterbank are built, the    *)
(* filterbank has 2 * num_coeffs filters; with num-coeffs left at its      *)
(* default that is 2 * DEFAULT_NUM_COEFFS.                                 *)
C20_FiltersTwiceCoeffs ==
    Allocated(cepstrum)
        => /\ cepstrum.num_filters = 2 * cepstrum.num_coeffs
           /\ cepstrum.filter_bank.nfilts = 2 * cepstrum.num_coeffs

(* C21: after a downmixing reader of any format has run on a block, the   *)
(* ring cell at (op + j) mod nfft holds, for each frame j of the block,   *)
(* the mean of that frame's own channel samples, normalised by the        *)
(* format's max_value.                                                    *)
C21_DownmixIsFrameMean ==
    l.done
        => \A j \in 1 .. Len(l.frames) :
              LET cell == l.out[((l.op + j - 1) % l.nfft) + 1]
              IN /\ cell.sum = SeqSum(l.frames[j])
                 /\ cell.channels = l.channels

(* C22: hop_size has no part in the scheduling: a step that gives         *)
(* hop_size another value leaves the counters, the cursor, the buffers,   *)
(* the transforms and the reports as they were, so that the stream goes   *)
(* on as if hop_size had never changed.                                   *)
C22_HopSizeNotConsumed ==
    [][cepstrum'.hop_size # cepstrum.hop_size
          => SchedView(cepstrum') = SchedView(cepstrum)]_vars

(* C23: once a chunk has built the buffers, and until the first interval  *)
(* is reported, frames_todo = frames_per_interval >= 1; and no interval   *)
(* is ever reported with zero frames consumed.                            *)
C23_FirstIntervalHasFrames ==
    /\ (Allocated(cepstrum) /\ ReportsSinceBuild(cepstrum) = 0)
          => /\ cepstrum.frames_todo = cepstrum.frames_per_interval
             /\ cepstrum.frames_per_interval >= 1
    /\ \A i \in 1 .. Len(cepstrum.h_reports) :
          cepstrum.h_reports[i].frames >= 1

(* C24: a pass of the loop transforms exactly when, after its block, the  *)
(* frame count is a multiple of the frame length (the length of the      *)
(* allocated ring, the buffer the refill is about), or the interval is    *)
(* complete and no transform has run in it; and every interval reported   *)
(* has had max(1, floor(frames / frame length)) transforms.               *)
C24_TransformExactlyOnRefillOrBoundary ==
    /\ (pc = "loop" /\ l.h_pass.done /\ RingLength(cepstrum) > 0)
          => (l.h_pass.ran
                <=> \/ l.h_pass.num_frames % RingLength(cepstrum) = 0
                    \/ /\ l.h_pass.num_frames = l.h_pass.frames_todo
                       /\ l.h_pass.num_fft = 0)
    /\ \A i \in 1 .. Len(cepstrum.h_reports) :
          LET r == cepstrum.h_reports[i]
          IN r.ring > 0
                => r.num_fft = (IF r.frames \div r.ring < 1 THEN 1
                                ELSE r.frames \div r.ring)

(* C25: the block a pass consumes is exactly the least of the frames to   *)
(* the next refill of the ring, the frames to the end of the interval     *)
(* (the difference of the 64-bit counters, not truncated) and the frames  *)
(* the buffer still has.                                                  *)
C25_BlockIsExactMinimum ==
    (l.h_pass.done /\ l.nfft > 0)
        => LET before == l.h_pass.num_frames - l.h_pass.block_size
           IN l.h_pass.block_size
                 = Min(Min(l.nfft - (before % l.nfft),
                           l.h_pass.frames_todo - before),
                       l.h_pass.avail)

(* C26 as stated: in every state accumulated_error is at most the         *)
(* interval.                                                              *)
C26_ErrorWithinInterval ==
    cepstrum.accumulated_error <= cepstrum.interval

(* C26, amended: in every state accumulated_error is below GST_SECOND +   *)
(* error_per_interval, hence below twice GST_SECOND; and a report made    *)
(* with accumulated_error >= GST_SECOND rolls one extra frame into        *)
(* frames_todo and takes GST_SECOND off, a report made below GST_SECOND   *)
(* rolls none, before error_per_interval is added.                        *)
C26_ErrorBelowTwoSeconds ==
    /\ [](/\ cepstrum.accumulated_error
                < GST_SECOND + cepstrum.error_per_interval
          /\ cepstrum.accumulated_error < 2 * GST_SECOND)
    /\ [][Len(cepstrum'.h_reports) = Len(cepstrum.h_reports) + 1
            => IF cepstrum.accumulated_error >= GST_SECOND
               THEN /\ cepstrum'.frames_todo
                          = cepstrum.frames_per_interval + 1
                    /\ cepstrum'.accumulated_error
                          = cepstrum.accumulated_error - GST_SECOND
                              + cepstrum.error_per_interval
               ELSE /\ cepstrum'.frames_todo = cepstrum.frames_per_interval
                    /\ cepstrum'.accumulated_error
                          = cepstrum.accumulated_error
                              + cepstrum.error_per_interval]_vars

(* a report has found the error at GST_SECOND or more and rolled the      *)
(* extra frame in, and the error left is still above the interval         *)
C26_Witness ==
    /\ Allocated(cepstrum) /\ Alive
    /\ cepstrum.accumulated_error > cepstrum.interval
    /\ cepstrum.frames_todo = cepstrum.frames_per_interval + 1
    /\ ReportsSinceBuild(cepstrum) >= 2

(* C27: after a pass that transformed, every active channel's scratch     *)
(* buffer holds, at each i below the window size, the ring sample at      *)
(* (cursor + i) mod frame length, the cursor being the one the transform  *)
(* was given.                                                             *)
C27_FrameCopyWrapsAtRing ==
    (pc = "loop" /\ Alive /\ l.h_pass.done /\ l.h_pass.ran /\ l.nfft > 0)
        => \A ch \in 1 .. Len(cepstrum.channel_data) :
              ch <= l.output_channels
                 => LET cd == cepstrum.channel_data[ch]
                    IN \A i \in 0 .. cepstrum.win_size - 1 :
                          (i < Len(cd.input_tmp) /\ l.nfft = Len(cd.input))
                             => cd.input_tmp[i + 1]
                                   = cd.input[((l.input_pos + i) % l.nfft) + 1]

(* C28: after the filterbank has been applied, the energy stored for      *)
(* filter i is log (S_i + 1e-10), S_i being the sum over the bins j below *)
(* half the frame length of magnitude[j] * weight_i[j].                   *)
C28_EnergyIsLogOfWeightedSum ==
    l.stage = "energies"
        => \A i1 \in 1 .. l.nfilts :
              l.mfcc[i1] = LogOf(MelWeightedSum(l.in, l.fbank, i1, l.nfft))

(* C29: after the projection, coefficient k, for each k below num_coeffs, *)
(* is the cosine sum of size num_filters over all the filter energies as  *)
(* they were when the projection started.                                 *)
C29_DctOverAllEnergies ==
    l.stage = "coefficients"
        => \A k1 \in 1 .. l.numcoeffs :
              l.mfcc[k1] = DctOf(l.nfilts, l.h_energies)

(* C30: every pass that completes an interval divides the magnitude       *)
(* accumulator of each active channel by the number of transforms of      *)
(* that interval.                                                         *)
C30_AveragedAtEveryCompletion ==
    [][(Len(cepstrum'.h_reports) = Len(cepstrum.h_reports) + 1
          /\ pc = "loop" /\ cepstrum'.fault = "none")
          => \A ch \in 1 .. Len(cepstrum.channel_data) :
                ch <= l.output_channels
                   => cepstrum'.channel_data[ch].h_divs
                         = Append(cepstrum.channel_data[ch].h_divs,
                                  cepstrum'.h_reports[
                                      Len(cepstrum'.h_reports)].num_fft)]_vars

(* C31: what a reset frees is what the preceding build allocated: every   *)
(* channel's buffers, and the filterbank vectors in exactly the slots     *)
(* they were stored in, all of them inside the filterbank array.          *)
C31_FreesWhatWasAllocated ==
    (cepstrum.h_free.done /\ cepstrum.fault = "none")
        => /\ cepstrum.h_free.channels = cepstrum.h_free.allocated
           /\ cepstrum.h_free.fbank = cepstrum.h_free.vectors
           /\ cepstrum.h_free.fbank \subseteq 0 .. cepstrum.h_free.slots - 1

C33_CallUsesBuiltGeometry ==
    (pc = "loop" /\ Alive /\ Allocated(cepstrum))
        => /\ l.nfft = RingLength(cepstrum)
           /\ l.output_channels = Len(cepstrum.channel_data)
           /\ l.h_pass.done => ~l.h_pass.stray

(* the write cursor: the local of a call inside its loop, the field       *)
(* otherwise (lines 1055 and 1141)                                        *)
Cursor == IF pc = "loop" THEN l.input_pos ELSE cepstrum.input_pos

(* C34: while buffers are allocated the write cursor is inside the ring   *)
(* and is the number of frames consumed since the buffers were built,     *)
(* modulo the ring length; so a completed interval or a discontinuity,    *)
(* which consume nothing, leave it alone, and a rebuild makes it 0.       *)
C34_CursorIsConsumedModRing ==
    (Allocated(cepstrum) /\ Alive)
        => /\ 0 <= Cursor
           /\ Cursor < RingLength(cepstrum)
           /\ Cursor = FramesSinceBuild(cepstrum) % RingLength(cepstrum)

(* C35: every array access of one transform and projection is inside the  *)
(* allocated length of its buffer: the scratch writes, the magnitude      *)
(* reads at the filter indices, the filterbank reads (in vectors that     *)
(* were allocated) and the coefficient writes.                            *)
C35_AccessesWithinBuffers ==
    l.ran
        => LET cd == cepstrum.channel_data[1]
               fb == cepstrum.filter_bank
           IN /\ l.input_tmp \subseteq 0 .. Len(cd.input_tmp) - 1
              /\ l.spect_magnitude \subseteq 0 .. Len(cd.spect_magnitude) - 1
              /\ l.fbank_slots \subseteq fb.written
              /\ l.fbank \subseteq 0 .. fb.nfft - 1
              /\ l.mfcc \subseteq 0 .. Len(cd.mfcc) - 1

====
